---- MODULE Spec2Model ----
(***************************************************************************)
(* Block-integrity core of aheschl1/blockchain: src/primitives/block.rs.   *)
(* BlockHeader hashing and validation, Block construction, the custom      *)
(* Deserialize impl, inclusion proofs and the Block -> [u8; 32] conversion.*)
(*                                                                         *)
(* Byte strings are sequences of tagged tokens:                            *)
(*   <<"raw", n>>   a 32-byte array supplied by a caller                   *)
(*   <<"b", k>>     one byte, 0 <= k < 256                                 *)
(*   <<"tx", t>>    the byte image of transaction t                        *)
(*   <<"h", buf>>   the 32-byte digest of the byte string buf              *)
(* The digest is collision free: two digests are equal exactly when the    *)
(* absorbed byte strings are equal.                                        *)
(***************************************************************************)
EXTENDS Integers, Sequences, FiniteSets, TLC

VARIABLES block, wire, hasher, now, out

vars == <<block, wire, hasher, now, out>>

\* ---------------------------------------------------------------- bounds
\* longest transaction sequence of a block
MaxTxs   == 3
\* largest nonce and largest depth of a header
MaxNonce == 1
MaxDepth == 1
\* number of seconds the clock may advance
MaxTicks == 1
\* the clock's first reading, seconds since the epoch
Now0     == 1000

Transactions == {1, 2}
Nonces       == 0..MaxNonce
Depths       == 0..MaxDepth

\* ------------------------------------------------------------- constants
HOUR == 60 * 60

None    == <<"none">>
Some(x) == <<"some", x>>
IsSome(o) == o[1] = "some"
Unwrap(o) == o[2]

Raw(n)  == <<"raw", n>>
Byte(k) == <<"b", k>>

\* u64::to_le_bytes: least significant byte first, eight bytes
RECURSIVE LeBytes(_, _)
LeBytes(n, k) == IF k = 0 THEN <<>> ELSE <<Byte(n % 256)>> \o LeBytes(n \div 256, k - 1)

to_le_bytes(n) == LeBytes(n, 8)

\* ------------------------------------------------------------ hash engine
\* An engine is the byte string absorbed since the last finalize, together
\* with the trace of the calls made on it: the number of update calls and the
\* byte strings that were finalized.
DefaultHash_new == [buf |-> <<>>, updates |-> 0, digests |-> <<>>]

Engine(buf) == [buf |-> buf, updates |-> 0, digests |-> <<>>]

update(e, bytes) == [e EXCEPT !.buf = @ \o bytes, !.updates = @ + 1]

\* finalize: fails when nothing was absorbed since the last finalize,
\* otherwise yields the digest and starts over
digest(e) ==
    IF e.buf = <<>>
    THEN [ok |-> FALSE, value |-> None, e |-> [e EXCEPT !.digests = Append(@, <<>>)]]
    ELSE [ok |-> TRUE, value |-> <<"h", e.buf>>,
          e |-> [e EXCEPT !.buf = <<>>, !.digests = Append(@, e.buf)]]

\* ------------------------------------------------------------ BlockHeader
BlockHeader_new(previous_hash, merkle_root, nonce, timestamp, miner_address, depth) ==
    [previous_hash |-> previous_hash, merkle_root |-> merkle_root, nonce |-> nonce,
     timestamp |-> timestamp, miner_address |-> miner_address, depth |-> depth]

\* Ok(hash_function.digest().unwrap())
unwrap_digest(d) ==
    IF d.ok THEN [res |-> "ok", value |-> d.value, e |-> d.e]
            ELSE [res |-> "panic", value |-> None, e |-> d.e]

\* BlockHeader::hash with nonce and timestamp absorbed in the other order
BlockHeader_hash_reordered(self, e) ==
    IF self.miner_address = None
    THEN [res |-> "err", value |-> None, e |-> e]
    ELSE LET e1 == update(e, <<self.previous_hash>>)
             e2 == update(e1, <<self.merkle_root>>)
             e3 == update(e2, <<Unwrap(self.miner_address)>>)
             e4 == update(e3, to_le_bytes(self.timestamp))
             e5 == update(e4, to_le_bytes(self.nonce))
             e6 == update(e5, to_le_bytes(self.depth))
         IN  unwrap_digest(digest(e6))

\* BlockHeader::hash with the first field absorbed before the miner is looked at
BlockHeader_hash_absorb_first(self, e) ==
    IF self.miner_address = None
    THEN [res |-> "err", value |-> None, e |-> update(e, <<self.previous_hash>>)]
    ELSE LET e1 == update(e, <<self.previous_hash>>)
             e2 == update(e1, <<self.merkle_root>>)
             e3 == update(e2, <<Unwrap(self.miner_address)>>)
             e4 == update(e3, to_le_bytes(self.nonce))
             e5 == update(e4, to_le_bytes(self.timestamp))
             e6 == update(e5, to_le_bytes(self.depth))
         IN  unwrap_digest(digest(e6))

\* impl Hashable for BlockHeader: result is "ok", "err" (miner not set) or
\* "panic" (the unwrap of a failed digest)
BlockHeader_hash(self, e) ==
    IF self.miner_address = None
    THEN [res |-> "err", value |-> None, e |-> e]
    ELSE LET e1 == update(e, <<self.previous_hash>>)
             e2 == update(e1, <<self.merkle_root>>)
             e3 == update(e2, <<Unwrap(self.miner_address)>>)
             e4 == update(e3, to_le_bytes(self.nonce))
             e5 == update(e4, to_le_bytes(self.timestamp))
             e6 == update(e5, to_le_bytes(self.depth))
         IN  unwrap_digest(digest(e6))

\* ------------------------------------------- difficulty and proof of work
\* protocol::difficulty::get_difficulty_from_depth: the number of low zero
\* bits the digest must have at this depth
get_difficulty_from_depth(depth) == 1 + depth

\* the number a byte string stands for, as far as the target test reads it
RECURSIVE TokenValue(_)
RECURSIVE BytesValue(_)
TokenValue(t) == IF t[1] = "h" THEN BytesValue(t[2]) ELSE t[2]
BytesValue(bs) == IF bs = <<>> THEN 0 ELSE (TokenValue(Head(bs)) + BytesValue(Tail(bs))) % 256

RECURSIVE Pow2(_)
Pow2(n) == IF n = 0 THEN 1 ELSE 2 * Pow2(n - 1)

\* protocol::pow::is_valid_hash
is_valid_hash(difficulty, hash) == TokenValue(hash) % Pow2(difficulty) = 0

\* ------------------------------------------------------- inclusion proofs
\* Transaction -> [u8; 32]: the digest of the transaction's bytes
Transaction_into(t) == <<"h", <<<<"tx", t>>>>>>

EmptyRoot == <<"empty", 0>>

\* a digest put in front of the digests that follow it on the same engine
Cons(d, rest) == [ok |-> d.ok /\ rest.ok, hs |-> <<d.value>> \o rest.hs, e |-> rest.e]

\* the leaves: each item hashed on the caller's engine, in the given order
RECURSIVE HashLeaves(_, _)
HashLeavesAfter(d, items) == Cons(d, HashLeaves(items, d.e))

HashLeaves(items, e) ==
    IF items = <<>> THEN [ok |-> TRUE, hs |-> <<>>, e |-> e]
    ELSE HashLeavesAfter(digest(update(e, <<<<"tx", Head(items)>>>>)), Tail(items))

\* one level up: neighbours hashed pairwise, a last odd node with itself
RECURSIVE HashLevel(_, _)
HashLevelAfter(d, level) == Cons(d, HashLevel(level, d.e))

HashLevel(level, e) ==
    IF level = <<>> THEN [ok |-> TRUE, hs |-> <<>>, e |-> e]
    ELSE HashLevelAfter(
             digest(update(update(e, <<level[1]>>),
                           <<IF Len(level) = 1 THEN level[1] ELSE level[2]>>)),
             SubSeq(level, 3, Len(level)))

RECURSIVE BuildLevels(_, _)
LevelsCons(level, up, rest) ==
    [ok |-> up.ok /\ rest.ok, levels |-> <<level>> \o rest.levels, e |-> rest.e]

BuildLevelsAbove(level, up) == LevelsCons(level, up, BuildLevels(up.hs, up.e))

BuildLevels(level, e) ==
    IF Len(level) <= 1 THEN [ok |-> TRUE, levels |-> <<level>>, e |-> e]
    ELSE BuildLevelsAbove(level, HashLevel(level, e))

TreeOf(ls, b) ==
    [ok |-> ls.ok /\ b.ok,
     tree |-> [levels |-> b.levels, root |-> Some(b.levels[Len(b.levels)][1])],
     e |-> b.e]

TreeFromLeaves(ls) == TreeOf(ls, BuildLevels(ls.hs, ls.e))

\* crypto::merkle::generate_tree: Result<MerkleTree, _>; the tree of zero
\* items has no levels and the empty-tree root
generate_tree(items, e) ==
    IF items = <<>>
    THEN [ok |-> TRUE, tree |-> [levels |-> <<>>, root |-> Some(EmptyRoot)], e |-> e]
    ELSE TreeFromLeaves(HashLeaves(items, e))

\* the path from leaf position i at level k up to the root
RECURSIVE ProofPath(_, _, _)
ProofPath(levels, k, i) ==
    IF k >= Len(levels) THEN <<>>
    ELSE <<[hash |-> IF i % 2 = 0 THEN levels[k][i - 1]
                     ELSE IF i + 1 <= Len(levels[k]) THEN levels[k][i + 1] ELSE levels[k][i],
            left |-> (i % 2 = 0)]>>
         \o ProofPath(levels, k + 1, (i + 1) \div 2)

\* crypto::merkle::generate_proof_of_inclusion: Option<MerkleProof>
generate_proof_of_inclusion(tree, leaf, e) ==
    IF tree.levels = <<>> \/ \A i \in 1..Len(tree.levels[1]) : tree.levels[1][i] # leaf
    THEN None
    ELSE Some(ProofPath(tree.levels, 1,
                        CHOOSE j \in 1..Len(tree.levels[1]) :
                            /\ tree.levels[1][j] = leaf
                            /\ \A m \in 1..(j - 1) : tree.levels[1][m] # leaf))

RECURSIVE FoldProof(_, _, _)
FoldProofAfter(d, proof) == FoldProof(d.value, proof, d.e)

FoldProof(cur, proof, e) ==
    IF proof = <<>> THEN cur
    ELSE FoldProofAfter(
             IF Head(proof).left
             THEN digest(update(update(e, <<Head(proof).hash>>), <<cur>>))
             ELSE digest(update(update(e, <<cur>>), <<Head(proof).hash>>)),
             Tail(proof))

\* crypto::merkle::verify_proof_of_inclusion
verify_proof_of_inclusion(leaf, proof, root, e) == FoldProof(leaf, proof, e) = root

\* ------------------------------------------------------------------ Block
\* the outcome of validate: the value returned, the engine as it is left, and
\* the calls made to the difficulty oracle, the proof-of-work predicate and
\* the system clock
Verdict(res, value, e, oracle, pow, clock) ==
    [res |-> res, value |-> value, e |-> e, oracle |-> oracle, pow |-> pow, clock |-> clock]

\* validate with the timestamp test written >= instead of >
validate_pow_strict(self, h2, current_time) ==
    IF h2.res # "ok" THEN Verdict("panic", FALSE, h2.e, 1, 0, 0)
    ELSE IF ~is_valid_hash(get_difficulty_from_depth(self.depth), h2.value)
    THEN Verdict("ok", FALSE, h2.e, 1, 1, 0)
    ELSE IF self.timestamp >= current_time + HOUR
    THEN Verdict("ok", FALSE, h2.e, 1, 1, 1)
    ELSE Verdict("ok", TRUE, h2.e, 1, 1, 1)

\* validate, lines 119-131: h2 is the second self.hash(hasher)
validate_pow(self, h2, current_time) ==
    IF h2.res # "ok" THEN Verdict("panic", FALSE, h2.e, 1, 0, 0)
    ELSE IF ~is_valid_hash(get_difficulty_from_depth(self.depth), h2.value)
    THEN Verdict("ok", FALSE, h2.e, 1, 1, 0)
    ELSE IF self.timestamp > current_time + HOUR
    THEN Verdict("ok", FALSE, h2.e, 1, 1, 1)
    ELSE Verdict("ok", TRUE, h2.e, 1, 1, 1)

\* validate, lines 116-119: h1 is the first self.hash(hasher)
validate_hash(self, expected_hash, h1, current_time) ==
    IF h1.res # "ok" THEN Verdict("panic", FALSE, h1.e, 0, 0, 0)
    ELSE IF expected_hash # h1.value THEN Verdict("ok", FALSE, h1.e, 0, 0, 0)
    ELSE validate_pow(self, BlockHeader_hash(self, h1.e), current_time)

\* validate with the clock read before the miner is looked at
validate_clock_first(self, expected_hash, e, current_time) ==
    IF self.miner_address = None THEN Verdict("ok", FALSE, e, 0, 0, 1)
    ELSE validate_hash(self, expected_hash, BlockHeader_hash(self, e), current_time)

\* BlockHeader::validate, with the clock's reading current_time
validate(self, expected_hash, e, current_time) ==
    IF self.miner_address = None THEN Verdict("ok", FALSE, e, 0, 0, 0)
    ELSE validate_hash(self, expected_hash, BlockHeader_hash(self, e), current_time)

\* Block::new with the outcome of header.hash unwrapped
Block_of_unwrapped(header, transactions, merkle_tree, hash) ==
    IF hash.res # "ok" THEN [res |-> "panic", block |-> None, e |-> hash.e]
    ELSE [res |-> "ok",
          block |-> Some([header |-> header, transactions |-> transactions,
                          hash |-> Some(hash.value), merkle_tree |-> merkle_tree]),
          e |-> hash.e]

\* Block::new, lines 179-184: hash is the outcome of header.hash(hasher)
Block_of(header, transactions, merkle_tree, hash) ==
    IF hash.res = "panic" THEN [res |-> "panic", block |-> None, e |-> hash.e]
    ELSE [res |-> "ok",
          block |-> Some([header |-> header, transactions |-> transactions,
                          hash |-> IF hash.res = "ok" THEN Some(hash.value) ELSE None,
                          merkle_tree |-> merkle_tree]),
          e |-> hash.e]

\* Block::new, line 178
Block_hashed(header, transactions, t) ==
    Block_of(header, transactions, t.tree, BlockHeader_hash(header, t.e))

\* Block::new, lines 169-177: t is the outcome of generate_tree; "panic" when
\* the tree build failed or the tree has no root
Block_from_tree(previous_hash, nonce, timestamp, transactions, miner_address, depth, t) ==
    IF ~t.ok \/ t.tree.root = None
    THEN [res |-> "panic", block |-> None, e |-> t.e]
    ELSE Block_hashed(BlockHeader_new(previous_hash, Unwrap(t.tree.root), nonce,
                                      timestamp, miner_address, depth),
                      transactions, t)

Block_new(previous_hash, nonce, timestamp, transactions, miner_address, depth, e) ==
    Block_from_tree(previous_hash, nonce, timestamp, transactions, miner_address, depth,
                    generate_tree(transactions, e))

\* the header and the hash of the persisted form put in place of the rebuilt ones
Verbatim(helper, r) ==
    IF r.res # "ok" THEN r
    ELSE [r EXCEPT !.block = Some([Unwrap(r.block) EXCEPT !.header = helper.header,
                                                          !.hash = helper.hash])]

\* derive(Serialize) with merkle_tree skipped: the persisted form
Block_serialize(self) ==
    [header |-> self.header, transactions |-> self.transactions, hash |-> self.hash]

\* Deserialize that rebuilds the tree and keeps header and hash as persisted
Block_deserialize_verbatim(helper) ==
    Verbatim(helper,
             Block_new(helper.header.previous_hash, helper.header.nonce,
                       helper.header.timestamp, helper.transactions,
                       helper.header.miner_address, helper.header.depth, DefaultHash_new))

\* Deserialize with the two u64 arguments nonce and timestamp exchanged
Block_deserialize_swapped(helper) ==
    Block_new(helper.header.previous_hash, helper.header.timestamp, helper.header.nonce,
              helper.transactions, helper.header.miner_address, helper.header.depth,
              DefaultHash_new)

\* impl Deserialize for Block, from the parsed PartialBlock
Block_deserialize(helper) ==
    Block_new(helper.header.previous_hash, helper.header.nonce, helper.header.timestamp,
              helper.transactions, helper.header.miner_address, helper.header.depth,
              DefaultHash_new)

get_proof_for_transaction(self, transaction) ==
    generate_proof_of_inclusion(self.merkle_tree, Transaction_into(transaction), DefaultHash_new)

\* validate_transaction with the proof verified against the wrong header field
validate_proof_wrong_root(self, transaction, proof) ==
    IF IsSome(proof)
    THEN verify_proof_of_inclusion(Transaction_into(transaction), Unwrap(proof),
                                   self.header.previous_hash, DefaultHash_new)
    ELSE FALSE

\* validate_transaction, lines 199-208
validate_proof(self, transaction, proof) ==
    IF IsSome(proof)
    THEN verify_proof_of_inclusion(Transaction_into(transaction), Unwrap(proof),
                                   self.header.merkle_root, DefaultHash_new)
    ELSE FALSE

validate_transaction(self, transaction) ==
    validate_proof(self, transaction, get_proof_for_transaction(self, transaction))

\* impl Into<[u8; 32]> for Block
Block_into(self) ==
    IF IsSome(self.hash) THEN [res |-> "ok", value |-> Unwrap(self.hash)]
                         ELSE [res |-> "panic", value |-> None]

\* ----------------------------------------------------------------- inputs
TxSeqs     == UNION {[1..n -> Transactions] : n \in 0..MaxTxs}
PrevHashes == {Raw(0)}
Miners     == {None, Some(Raw(7))}
Timestamps == {Now0 + HOUR, Now0 + HOUR + 1}

\* what the last operation returned and the calls it made
Out(op, arg, res, value, e, oracle, pow, clock) ==
    [op |-> op, arg |-> arg, res |-> res, value |-> value,
     updates |-> e.updates, digests |-> e.digests,
     oracle |-> oracle, pow |-> pow, clock |-> clock]

Init ==
    /\ block = None
    /\ wire = None
    /\ hasher = <<>>
    /\ now = Now0
    /\ out = Out("init", None, "ok", None, DefaultHash_new, 0, 0, 0)

HasBlock == IsSome(block)

\* the block at hand
Blk == Unwrap(block)

\* a caller that holds no block builds one on its engine
NewBlock(previous_hash, nonce, timestamp, transactions, miner_address, depth) ==
    /\ ~HasBlock
    /\ \E r \in {Block_new(previous_hash, nonce, timestamp, transactions, miner_address,
                            depth, Engine(hasher))} :
          /\ block' = IF r.res = "ok" THEN r.block ELSE block
          /\ hasher' = r.e.buf
          /\ out' = Out("new", None, r.res, None, r.e, 0, 0, 0)
    /\ UNCHANGED <<wire, now>>

\* a caller hashes the block's header on its engine
HashHeader ==
    /\ HasBlock
    /\ \E r \in {BlockHeader_hash(Blk.header, Engine(hasher))} :
          /\ hasher' = r.e.buf
          /\ out' = Out("hash", None, r.res, r.value, r.e, 0, 0, 0)
    /\ UNCHANGED <<block, wire, now>>

\* a caller validates the block's header against a claimed hash
Validate(expected_hash) ==
    /\ HasBlock
    /\ \E r \in {validate(Blk.header, expected_hash, Engine(hasher), now)} :
          /\ hasher' = r.e.buf
          /\ out' = Out("validate", expected_hash, r.res, r.value, r.e,
                        r.oracle, r.pow, r.clock)
    /\ UNCHANGED <<block, wire, now>>

ValidateTransaction(t) ==
    /\ HasBlock
    /\ out' = Out("validate_transaction", t, "ok", validate_transaction(Blk, t),
                  DefaultHash_new, 0, 0, 0)
    /\ UNCHANGED <<block, wire, hasher, now>>

IntoHash ==
    /\ HasBlock
    /\ \E r \in {Block_into(Blk)} :
          out' = Out("into", None, r.res, r.value, DefaultHash_new, 0, 0, 0)
    /\ UNCHANGED <<block, wire, hasher, now>>

Serialize ==
    /\ HasBlock
    /\ wire' = Some(Block_serialize(Blk))
    /\ out' = Out("wire", None, "ok", None, DefaultHash_new, 0, 0, 0)
    /\ UNCHANGED <<block, hasher, now>>

\* the persisted form is altered in storage or in transit: transaction t
\* takes the place of the first transaction, under the same header
TamperTransactions(t) ==
    /\ IsSome(wire)
    /\ wire = Some(Block_serialize(Blk))
    /\ wire' = Some([Unwrap(wire) EXCEPT
                       !.transactions = IF @ = <<>> THEN <<t>> ELSE <<t>> \o Tail(@)])
    /\ out' = Out("wire", None, "ok", None, DefaultHash_new, 0, 0, 0)
    /\ UNCHANGED <<block, hasher, now>>

\* the persisted form is altered: another hash field
TamperHash(hash) ==
    /\ IsSome(wire)
    /\ wire' = Some([Unwrap(wire) EXCEPT !.hash = hash])
    /\ out' = Out("wire", None, "ok", None, DefaultHash_new, 0, 0, 0)
    /\ UNCHANGED <<block, hasher, now>>

\* a block is loaded from the persisted form
Deserialize ==
    /\ IsSome(wire)
    /\ \E r \in {Block_deserialize(Unwrap(wire))} :
          /\ block' = IF r.res = "ok" THEN r.block ELSE block
          /\ out' = Out("deserialize", None, r.res, None, r.e, 0, 0, 0)
    /\ UNCHANGED <<wire, hasher, now>>

\* the caller lets go of the block and of its persisted form; the engine
\* stays with the caller
Drop ==
    /\ HasBlock
    /\ block' = None
    /\ wire' = None
    /\ out' = Out("drop", None, "ok", None, DefaultHash_new, 0, 0, 0)
    /\ UNCHANGED <<hasher, now>>

\* the system clock advances by a second
Tick ==
    /\ now < Now0 + MaxTicks
    /\ now' = now + 1
    /\ out' = Out("tick", None, "ok", None, DefaultHash_new, 0, 0, 0)
    /\ UNCHANGED <<block, wire, hasher>>

\* the hashes a caller may claim for the header: a foreign one, the block's
\* own and the one the persisted form carries
ExpectedHashes ==
    IF ~HasBlock THEN {}
    ELSE {Raw(0)} \cup (IF IsSome(Blk.hash) THEN {Unwrap(Blk.hash)} ELSE {})
                  \cup (IF IsSome(wire) /\ IsSome(Unwrap(wire).hash)
                        THEN {Unwrap(Unwrap(wire).hash)} ELSE {})

Next ==
    \/ \E p \in PrevHashes, n \in Nonces, ts \in Timestamps, txs \in TxSeqs,
          m \in Miners, d \in Depths : NewBlock(p, n, ts, txs, m, d)
    \/ HashHeader
    \/ \E h \in ExpectedHashes : Validate(h)
    \/ \E t \in Transactions : ValidateTransaction(t)
    \/ IntoHash
    \/ Serialize
    \/ \E t \in Transactions : TamperTransactions(t)
    \/ \E h \in {None, Some(Raw(0))} : TamperHash(h)
    \/ Deserialize
    \/ Drop
    \/ Tick

Spec == Init /\ [][Next]_vars

\* ================================================================= claims
\* a u64 below 2^32 written out least significant byte first
LittleEndian8(n) ==
    <<Byte(n % 256), Byte((n \div 256) % 256), Byte((n \div 65536) % 256),
      Byte((n \div 16777216) % 256), Byte(0), Byte(0), Byte(0), Byte(0)>>

\* the canonical byte sequence of a header whose miner is set
CanonicalBytes(h) ==
    <<h.previous_hash, h.merkle_root, Unwrap(h.miner_address)>>
        \o LittleEndian8(h.nonce) \o LittleEndian8(h.timestamp) \o LittleEndian8(h.depth)

\* the digest a fresh engine gives for a header whose miner is set
FreshDigest(h) == <<"h", CanonicalBytes(h)>>

\* the root of the tree built over a transaction sequence on a fresh engine
RootOf(transactions) == generate_tree(transactions, DefaultHash_new).tree.root

MinerSet(h) == h.miner_address # None

\* the persisted form at hand
Wire == Unwrap(wire)

\* C1: validate returns true exactly when the miner is set, the header's
\* digest is the expected hash, the proof-of-work predicate accepts that
\* digest at the difficulty of the header's depth, and the timestamp is at
\* most the clock's reading plus 3600 seconds.
C1_ValidateIffFourChecks ==
    out.op = "validate" =>
        /\ out.res = "ok"
        /\ out.value <=>
              /\ MinerSet(Blk.header)
              /\ FreshDigest(Blk.header) = out.arg
              /\ is_valid_hash(get_difficulty_from_depth(Blk.header.depth),
                               FreshDigest(Blk.header))
              /\ Blk.header.timestamp <= now + 3600

\* a header one hour ahead of the clock, to the second, has been accepted
C1_Witness ==
    /\ out.op = "validate"
    /\ out.value = TRUE
    /\ Blk.header.timestamp = now + 3600

\* C2: the root of a block's tree is the merkle_root of its header, and both
\* are the root of the tree built over the block's transactions in order.
C2_TreeRootIsHeaderRoot ==
    HasBlock =>
        /\ Blk.merkle_tree.root = Some(Blk.header.merkle_root)
        /\ Blk.merkle_tree.root = RootOf(Blk.transactions)

\* a block was loaded from a form whose header names another root
C2_Witness ==
    /\ out.op = "deserialize"
    /\ Len(Blk.transactions) = 2
    /\ Wire.header.merkle_root # Blk.header.merkle_root
    /\ Blk.merkle_tree.root = Some(Blk.header.merkle_root)

\* C3: a block's hash is absent when its header has no miner, and is
\* otherwise the digest of previous_hash, merkle_root, miner_address, nonce,
\* timestamp, depth in this order.
C3_HashIsCanonicalDigest ==
    HasBlock =>
        Blk.hash = IF MinerSet(Blk.header) THEN Some(FreshDigest(Blk.header)) ELSE None

\* a block was loaded from a form carrying another hash, and has a hash
C3_Witness ==
    /\ out.op = "deserialize"
    /\ IsSome(Blk.hash)
    /\ Wire.hash # Blk.hash
    /\ Blk.transactions # <<>>

\* C4: validate_transaction is true for the transactions of the block and
\* false for every other transaction.
C4_ValidateTransactionIffMember ==
    out.op = "validate_transaction" =>
        (out.value <=> \E i \in 1..Len(Blk.transactions) : Blk.transactions[i] = out.arg)

\* the second of two different transactions was found in its block
C4_Witness ==
    /\ out.op = "validate_transaction"
    /\ out.value = TRUE
    /\ Len(Blk.transactions) = 2
    /\ Blk.transactions[2] = out.arg
    /\ Blk.transactions[1] # out.arg

\* C5: on a header without miner, hash fails with the missing-miner error
\* and validate returns false; no byte is absorbed, no digest is finalized,
\* the engine is as it was, and neither the difficulty oracle nor the
\* proof-of-work predicate nor the clock is called.
C5_MissingMinerTouchesNothing ==
    (out.op \in {"hash", "validate"} /\ ~MinerSet(Blk.header)) =>
        /\ out.op = "hash" => out.res = "err"
        /\ out.op = "validate" => (out.res = "ok" /\ out.value = FALSE)
        /\ out.updates = 0
        /\ out.digests = <<>>
        /\ hasher = <<>>
        /\ out.oracle = 0 /\ out.pow = 0 /\ out.clock = 0

\* a header without miner was validated
C5_Witness ==
    /\ out.op = "validate"
    /\ ~MinerSet(Blk.header)
    /\ out.value = FALSE

\* the header of the persisted form names a root its transactions do not have
WireRootMismatch == Some(Wire.header.merkle_root) # RootOf(Wire.transactions)

\* C6 as stated: a persisted form whose transactions do not reproduce the
\* merkle_root of its header is rejected, never loaded as an ordinary block.
C6_MismatchIsRejected ==
    (out.op = "deserialize" /\ WireRootMismatch) => out.res # "ok"

\* C6 as the code has it: loading always succeeds; the block has the
\* transactions of the persisted form, the root re-derived from them, the
\* other header fields as persisted, and a hash computed anew, whether or
\* not the persisted header named that root.
C6_MismatchIsRederived ==
    out.op = "deserialize" =>
        /\ out.res = "ok"
        /\ Blk.transactions = Wire.transactions
        /\ Blk.header = [Wire.header EXCEPT !.merkle_root = Unwrap(RootOf(Wire.transactions))]
        /\ Blk.hash = IF MinerSet(Blk.header) THEN Some(FreshDigest(Blk.header)) ELSE None

\* a form whose header names another root was loaded as a block
C6_Witness ==
    /\ out.op = "deserialize"
    /\ out.res = "ok"
    /\ WireRootMismatch
    /\ Some(Blk.header.merkle_root) = RootOf(Wire.transactions)

\* C7: loading the persisted form of a block gives a block with the same
\* header, the same tree root and the same hash.
C7_RoundTrip ==
    [][(out'.op = "deserialize" /\ HasBlock /\ wire = Some(Block_serialize(Blk))) =>
          /\ Unwrap(block').header = Blk.header
          /\ Unwrap(block').merkle_tree.root = Blk.merkle_tree.root
          /\ Unwrap(block').hash = Blk.hash]_vars

\* a mined block with two transactions came back from its own persisted form
C7_Witness ==
    /\ out.op = "deserialize"
    /\ wire = Some(Block_serialize(Blk))
    /\ IsSome(Blk.hash)
    /\ Len(Blk.transactions) = 2

\* C8: Block::new returns a block for every input; with no transactions the
\* header has the root of the empty tree, with no miner the hash is absent.
C8_NewNeverFails ==
    out.op = "new" =>
        /\ out.res = "ok"
        /\ HasBlock
        /\ Blk.transactions = <<>> => Blk.header.merkle_root = EmptyRoot
        /\ ~MinerSet(Blk.header) => Blk.hash = None

\* a block without transactions and without miner was built
C8_Witness ==
    /\ out.op = "new"
    /\ HasBlock
    /\ Blk.transactions = <<>>
    /\ ~MinerSet(Blk.header)
    /\ Blk.hash = None

\* C9: the conversion to a hash gives the hash of a finalized block and
\* fails with NotFinalized, without panicking, on a block that has no hash.
C9_IntoIsGuarded ==
    out.op = "into" =>
        IF IsSome(Blk.hash) THEN out.res = "ok" /\ out.value = Unwrap(Blk.hash)
                            ELSE out.res = "NotFinalized"

\* the byte strings the tree build finalizes: one transaction, or two digests
TreeInput(bytes) ==
    \/ Len(bytes) = 1 /\ bytes[1][1] = "tx"
    \/ Len(bytes) = 2 /\ bytes[1][1] = "h" /\ bytes[2][1] = "h"

\* C10: every header hash computed on a reused engine is the digest a fresh
\* engine gives: both hashes of validate, and the hash Block::new computes
\* after the tree build; every byte string finalized was absorbed since the
\* finalize before it and is not empty; the engine is left empty.
C10_EngineReuse ==
    /\ hasher = <<>>
    /\ \A i \in 1..Len(out.digests) : out.digests[i] # <<>>
    /\ out.op \in {"validate", "hash"} =>
          \A i \in 1..Len(out.digests) : out.digests[i] = CanonicalBytes(Blk.header)
    /\ (out.op = "hash" /\ out.res = "ok") => out.value = FreshDigest(Blk.header)
    /\ (out.op \in {"new", "deserialize"} /\ HasBlock) =>
          /\ \A i \in 1..Len(out.digests) :
                IF MinerSet(Blk.header) /\ i = Len(out.digests)
                THEN out.digests[i] = CanonicalBytes(Blk.header)
                ELSE TreeInput(out.digests[i])
          /\ MinerSet(Blk.header) =>
                (out.digests # <<>> /\ Blk.hash = Some(FreshDigest(Blk.header)))

\* validate hashed the header twice on the caller's engine
C10_Witness ==
    /\ out.op = "validate"
    /\ Len(out.digests) = 2
    /\ out.value = TRUE

====
